---- MODULE Spec2Model ----
(***************************************************************************)
(* Model of the QA plugin (src/main.py): the keyword matcher               *)
(* check_is_match and the message / command handlers of MyPlugin.          *)
(*                                                                         *)
(* A string is a sequence of characters; a character is a TLA+ string.     *)
(* The CJK characters of the source are written in pinyin:                 *)
(*   "di","tu" = the core word at index 1 of important_words, and so on;   *)
(*   "yao","qing","ma" = the invitation trigger of line 314.               *)
(***************************************************************************)
EXTENDS Integers, Sequences, FiniteSets, TLC

VARIABLES
    keyword,        \* check_is_match: argument keyword
    message,        \* check_is_match: argument message
    keyword_words,  \* what jieba.cut(keyword) yields (line 71)
    message_words,  \* what jieba.cut(message) yields (line 72)
    exit,           \* the return / raise statement check_is_match left by
    ret             \* "pending", or the call's result

matchVars == <<keyword, message, keyword_words, message_words, exit, ret>>

VARIABLES
    qa,         \* self.QASystem: group -> the keyword entries, in stored order
    urls,       \* self.QASystem: group -> invitation url, or None
    waiting,    \* the session_waiter pending in each group (lines 169-199)
    last,       \* the event handled last and the store write it made
    scanned,    \* on_all_message: the check_is_match result per keyword reached
    out,        \* the results the last handler yielded, in order
    fetched,    \* the urls the last handler passed to fetch_invitation_code
    expect,     \* history: group -> keyword -> replies of the latest add not deleted since
    events      \* number of events handled

pluginVars == <<qa, urls, waiting, last, scanned, out, fetched, expect, events>>

vars == <<matchVars, pluginVars>>

----------------------------------------------------------------------------
(* Bounds of the checked input space.                                      *)
MaxKwLen == 3       \* longest keyword of the exhaustive family
MaxMsgLen == 3      \* longest message of the exhaustive family
MaxPatLen == 2      \* longest systematically enumerated regex pattern
LongLen == 10       \* keyword length (in tokens) of the coverage family
MaxEvents == 4      \* events delivered to the plugin in one run

----------------------------------------------------------------------------
(* Python str helpers.                                                     *)

\* all strings over alphabet A of length lo..hi
Strings(A, lo, hi) == UNION {[1..n -> A] : n \in lo..hi}

\* s[i:] (0-based i)
Drop(s, i) == SubSeq(s, i + 1, Len(s))

\* `k in m` for str
str_in(k, m) ==
    \E i \in 0..(Len(m) - Len(k)) : SubSeq(m, i + 1, i + Len(k)) = k

\* s.startswith(p)
startswith(s, p) == Len(s) >= Len(p) /\ SubSeq(s, 1, Len(p)) = p

\* set(s)
CharSet(s) == {s[i] : i \in 1..Len(s)}

\* s.replace(w, ""): every non-overlapping occurrence, scanning left to right
RECURSIVE str_replace(_, _)
str_replace(s, w) ==
    IF Len(s) < Len(w) \/ Len(w) = 0 THEN s
    ELSE IF SubSeq(s, 1, Len(w)) = w THEN str_replace(Drop(s, Len(w)), w)
    ELSE <<s[1]>> \o str_replace(Tail(s), w)

\* the set of token sequences a segmenter can cut s into: jieba.cut keeps
\* every character, so the tokens are contiguous non-empty pieces of s
RECURSIVE jieba_cut(_)
jieba_cut(s) ==
    IF s = <<>> THEN {<<>>}
    ELSE UNION {{<<SubSeq(s, 1, i)>> \o r : r \in jieba_cut(Drop(s, i))}
                : i \in 1..Len(s)}

\* the segmentation into single characters
CutChars(s) == [i \in 1..Len(s) |-> <<s[i]>>]

----------------------------------------------------------------------------
(* re.search(pattern, message), line 64, for patterns written with         *)
(* literal characters, ".", "[...]" sets and "{n}" repeats (no backslash,  *)
(* "^", "-", ",", group or "*+?|" characters occur in the checked inputs). *)
(* Parsing follows sre_parse: a set closes at the first "]" that is not    *)
(* its first member; "{" is a repeat only when digits and "}" follow; the  *)
(* repeat count is range-checked before the repeated item is looked at.    *)

Digits == {"0", "1", "2", "3", "4", "5", "6", "7", "8", "9"}

DigitVal(c) ==
    CASE c = "0" -> 0 [] c = "1" -> 1 [] c = "2" -> 2 [] c = "3" -> 3
      [] c = "4" -> 4 [] c = "5" -> 5 [] c = "6" -> 6 [] c = "7" -> 7
      [] c = "8" -> 8 [] c = "9" -> 9

\* the decimal digits of sre_constants.MAXREPEAT (2^32 - 1)
MAXREPEAT == <<"4", "2", "9", "4", "9", "6", "7", "2", "9", "5">>

RECURSIVE StripZeros(_)
StripZeros(ds) ==
    IF ds # <<>> /\ ds[1] = "0" THEN StripZeros(Tail(ds)) ELSE ds

\* int(lo) >= MAXREPEAT, decided on the digits
RepeatTooLarge(lo) ==
    LET ds == StripZeros(lo) IN
    \/ Len(ds) > Len(MAXREPEAT)
    \/ /\ Len(ds) = Len(MAXREPEAT)
       /\ \/ ds = MAXREPEAT
          \/ \E i \in 1..Len(ds) :
                /\ SubSeq(ds, 1, i - 1) = SubSeq(MAXREPEAT, 1, i - 1)
                /\ DigitVal(ds[i]) > DigitVal(MAXREPEAT[i])

\* int(lo); a count of three or more digits is longer than any message
\* checked here and is represented by 100
RECURSIVE DecValue(_, _)
DecValue(ds, acc) ==
    IF ds = <<>> THEN acc ELSE DecValue(Tail(ds), 10 * acc + DigitVal(ds[1]))

RepeatCount(lo) ==
    LET ds == StripZeros(lo) IN IF Len(ds) > 2 THEN 100 ELSE DecValue(ds, 0)

\* index of the "]" closing a set whose first member is at i, or 0
SetClose(p, i) ==
    LET C == {j \in (i + 1)..Len(p) : p[j] = "]"} IN
    IF C = {} THEN 0 ELSE CHOOSE j \in C : \A k \in C : j <= k

\* index just after the digit run starting at i
RECURSIVE DigitsEnd(_, _)
DigitsEnd(p, i) ==
    IF i <= Len(p) /\ p[i] \in Digits THEN DigitsEnd(p, i + 1) ELSE i

Lit(c) == [any |-> FALSE, set |-> {c}, n |-> 1, rep |-> FALSE]

\* sre_parse.parse: the item list, or (err) the name of the exception raised
RECURSIVE re_parse(_, _, _)
re_parse(p, i, items) ==
    IF i > Len(p) THEN [err |-> "", items |-> items]
    ELSE IF p[i] = "." THEN
        re_parse(p, i + 1,
                 Append(items, [any |-> TRUE, set |-> {}, n |-> 1, rep |-> FALSE]))
    ELSE IF p[i] = "[" THEN
        LET c == SetClose(p, i + 1) IN
        IF c = 0 THEN [err |-> "re.error", items |-> <<>>]
        ELSE re_parse(p, c + 1,
                      Append(items, [any |-> FALSE,
                                     set |-> {p[j] : j \in (i + 1)..(c - 1)},
                                     n |-> 1, rep |-> FALSE]))
    ELSE IF p[i] = "{" THEN
        LET j == DigitsEnd(p, i + 1)
            lo == SubSeq(p, i + 1, j - 1)
        IN
        IF j = i + 1 \/ j > Len(p) \/ p[j] # "}" THEN
            re_parse(p, i + 1, Append(items, Lit("{")))
        ELSE IF RepeatTooLarge(lo) THEN [err |-> "OverflowError", items |-> <<>>]
        ELSE IF items = <<>> THEN [err |-> "re.error", items |-> <<>>]
        ELSE IF items[Len(items)].rep THEN [err |-> "re.error", items |-> <<>>]
        ELSE re_parse(p, j + 1,
                      [items EXCEPT ![Len(items)] =
                          [@ EXCEPT !.n = RepeatCount(lo), !.rep = TRUE]])
    ELSE re_parse(p, i + 1, Append(items, Lit(p[i])))

\* the items from index k on match m at position pos
RECURSIVE match_here(_, _, _, _)
match_here(items, k, m, pos) ==
    IF k > Len(items) THEN TRUE
    ELSE LET it == items[k] IN
         /\ pos + it.n - 1 <= Len(m)
         /\ \A j \in pos..(pos + it.n - 1) : it.any \/ m[j] \in it.set
         /\ match_here(items, k + 1, m, pos + it.n)

\* re.search(pattern, message): "match", "nomatch" or the exception raised
re_search(pattern, m) ==
    LET parsed == re_parse(pattern, 1, <<>>) IN
    IF parsed.err # "" THEN parsed.err
    ELSE IF \E pos \in 1..(Len(m) + 1) : match_here(parsed.items, 1, m, pos)
         THEN "match" ELSE "nomatch"

----------------------------------------------------------------------------
(* check_is_match, lines 40-98.                                            *)

re_prefix == <<"r", "e", ":">>

\* line 87; "di tu" = map, "gong lue" = guide, ...
important_words ==
    << <<"di", "tu">>, <<"gong", "lue">>, <<"zhi", "nan">>,
       <<"jiao", "cheng">>, <<"bang", "zhu">>, <<"shuo", "ming">> >>

\* word in words (list membership)
word_in(word, words) == \E j \in 1..Len(words) : words[j] = word

\* lines 61-67: "match", "nomatch" (also after a swallowed re.error), or the
\* exception that `except re.error` lets through
regex_strategy(k, m) ==
    IF startswith(k, re_prefix) THEN
        LET r == re_search(Drop(k, Len(re_prefix)), m) IN
        IF r = "re.error" THEN "nomatch" ELSE r
    ELSE "nomatch"

\* line 80: sum(1 for word in keyword_words if word in message_words)
RECURSIVE matched_count(_, _)
matched_count(kw, mw) ==
    IF kw = <<>> THEN 0
    ELSE (IF word_in(kw[1], mw) THEN 1 ELSE 0) + matched_count(Tail(kw), mw)

\* a strict threshold instead of the inclusive one
ratio_ok_strict(matched, total) == 10 * matched > 7 * total

\* line 82: matched_count / len(keyword_words) >= 0.7 (the quotient of two
\* small naturals rounds to the double 0.7 or above exactly when it is >= 7/10)
ratio_ok(matched, total) == 10 * matched >= 7 * total

\* short keywords accepted when any one token is present
token_coverage_any(kw, mw) ==
    IF Len(kw) <= 2 THEN \E i \in 1..Len(kw) : word_in(kw[i], mw)
    ELSE ratio_ok(matched_count(kw, mw), Len(kw))

\* lines 75-83
token_coverage(kw, mw) ==
    IF Len(kw) <= 2 THEN \A i \in 1..Len(kw) : word_in(kw[i], mw)
    ELSE ratio_ok(matched_count(kw, mw), Len(kw))

\* s with only its first occurrence of w removed
RemoveFirst(s, w) ==
    LET O == {i \in 0..(Len(s) - Len(w)) : SubSeq(s, i + 1, i + Len(w)) = w} IN
    IF O = {} THEN s
    ELSE LET i == CHOOSE a \in O : \A b \in O : a <= b
         IN SubSeq(s, 1, i) \o Drop(s, i + Len(w))

\* the core word removed once only
core_word_hit_first(word, k, m) ==
    /\ str_in(word, k)
    /\ str_in(word, m)
    /\ CharSet(RemoveFirst(k, word)) \cap CharSet(RemoveFirst(m, word)) # {}

\* lines 90-95 for one core word
core_word_hit(word, k, m) ==
    /\ str_in(word, k)
    /\ str_in(word, m)
    /\ CharSet(str_replace(k, word)) \cap CharSet(str_replace(m, word)) # {}

\* lines 88-96
core_word_match(k, m) ==
    \E i \in 1..Len(important_words) : core_word_hit(important_words[i], k, m)

\* the regex strategy tried before the substring test
match_exit_regex_first(k, m, kw, mw) ==
    IF k = <<>> \/ m = <<>> THEN "L54"
    ELSE LET rx == regex_strategy(k, m) IN
         IF rx = "match" THEN "L65"
         ELSE IF rx # "nomatch" THEN "L64raise"
         ELSE IF str_in(k, m) THEN "L58"
         ELSE IF token_coverage(kw, mw) THEN (IF Len(kw) <= 2 THEN "L77" ELSE "L83")
         ELSE IF core_word_match(k, m) THEN "L96"
         ELSE "L98"

\* the statement check_is_match leaves by
match_exit(k, m, kw, mw) ==
    IF k = <<>> \/ m = <<>> THEN "L54"
    ELSE IF str_in(k, m) THEN "L58"
    ELSE LET rx == regex_strategy(k, m) IN
         IF rx = "match" THEN "L65"
         ELSE IF rx # "nomatch" THEN "L64raise"
         ELSE IF token_coverage(kw, mw) THEN (IF Len(kw) <= 2 THEN "L77" ELSE "L83")
         ELSE IF core_word_match(k, m) THEN "L96"
         ELSE "L98"

\* the result: "True", "False", or the exception propagated to the caller
check_is_match(k, m, kw, mw) ==
    LET x == match_exit(k, m, kw, mw) IN
    IF x \in {"L58", "L65", "L77", "L83", "L96"} THEN "True"
    ELSE IF x \in {"L54", "L98"} THEN "False"
    ELSE regex_strategy(k, m)

----------------------------------------------------------------------------
(* The checked inputs of check_is_match.                                   *)

AlphaCore == {"di", "tu", "x"}
AlphaCore2 == {"gong", "lue"}
AlphaRep == {"di", "tu"}
AlphaTok == {"x", "y"}
AlphaPat == {"x", ".", "[", "]", "{", "}", "2"}

\* patterns beyond the systematic ones
RegexSamples ==
    { <<"x", "{", "4", "2", "9", "4", "9", "6", "7", "2", "9", "5", "}">>,
      <<"x", "{", "4", "2", "9", "4", "9", "6", "7", "2", "9", "4", "}">>,
      <<"[", "x", "y", "]", "{", "2", "}">>,
      <<"x", ".", "y">> }

\* segmentations tried for s: all of them when s is short
CutsFor(s) ==
    IF Len(s) <= MaxKwLen + 1 THEN jieba_cut(s) ELSE {CutChars(s), <<s>>}

\* exhaustive family over an alphabet, keywords of lo..hi characters
InFamily(A, lo, hi) ==
    /\ keyword \in Strings(A, lo, hi)
    /\ message \in Strings(A, 0, MaxMsgLen)
    /\ keyword_words \in jieba_cut(keyword)
    /\ message_words \in jieba_cut(message)

\* "re:" keywords
InRegex ==
    /\ keyword \in {re_prefix \o p : p \in Strings(AlphaPat, 0, MaxPatLen) \cup RegexSamples}
    /\ message \in Strings(AlphaTok, 0, MaxMsgLen)
                     \cup {keyword, <<"x">> \o keyword \o <<"y">>}
    /\ keyword_words \in CutsFor(keyword)
    /\ message_words \in CutsFor(message)

\* keywords of many tokens
InCoverage ==
    /\ keyword \in Strings(AlphaTok, LongLen - 1, LongLen)
    /\ message \in Strings(AlphaTok, 1, 2)
    /\ keyword_words = CutChars(keyword)
    /\ message_words \in jieba_cut(message)

----------------------------------------------------------------------------
(* QASystem (module QA): the store behind the handlers.                    *)

None == <<>>

\* index of keyword k among the entries, or 0
EntryIndex(entries, k) ==
    LET I == {i \in 1..Len(entries) : entries[i].keyword = k} IN
    IF I = {} THEN 0 ELSE CHOOSE i \in I : TRUE

\* QASystem.get_qa(group_id, keyword)
get_qa(store, g, k) ==
    LET i == EntryIndex(store[g], k) IN
    IF i = 0 THEN <<>> ELSE store[g][i].values

\* QASystem.get_qa_by_group(group_id): keyword -> replies, as the entry list
\* in its enumeration order
get_qa_by_group(store, g) == store[g]

\* QASystem.add_qa(group_id, keyword, values): upsert, replacing the replies
add_qa(store, g, k, values) ==
    LET i == EntryIndex(store[g], k) IN
    IF g = "" \/ k = "" THEN store
    ELSE IF i = 0
         THEN [store EXCEPT ![g] = Append(@, [keyword |-> k, values |-> values])]
         ELSE [store EXCEPT ![g][i].values = values]

\* QASystem.delete_qa(group_id, keyword): the store afterwards
delete_qa(store, g, k) ==
    [store EXCEPT ![g] = SelectSeq(@, LAMBDA e : e.keyword # k)]

\* QASystem.delete_qa: the status message
delete_qa_result(store, g, k) ==
    IF EntryIndex(store[g], k) = 0 THEN <<"delete_not_found">> ELSE <<"delete_done">>

\* QASystem.add_group_invitation_url(group_id, url)
add_group_invitation_url(u, g, url) == [u EXCEPT ![g] = url]

\* QASystem.get_group_invitation_url(group_id)
get_group_invitation_url(u, g) == u[g]

----------------------------------------------------------------------------
(* The plugin's inputs.                                                    *)

Groups == {"g1", "g2"}
Users == {"u1", "u2"}
Roles == {"owner", "admin", "member"}

\* self.admins (line 134), from the configuration
admins == {"u1"}

\* the keywords administrators register, by name; text_of gives the string.
\* KOver is a "re:" keyword whose repeat count is sre's MAXREPEAT.
Keywords == {"KA", "KB", "KOver"}

text_of(k) ==
    CASE k = "KA" -> <<"x">>
      [] k = "KB" -> <<"y">>
      [] k = "KOver" -> re_prefix \o <<"x", "{">> \o MAXREPEAT \o <<"}">>

\* line 314: the invitation trigger
invitation_trigger == <<"yao", "qing", "ma">>

\* message_str of inbound messages
Messages ==
    { <<"y", "x">>, invitation_trigger, <<"x">> \o invitation_trigger,
      <<"/", "x">> \o invitation_trigger }

\* message_str of the follow-up message of a registration
ReplyTexts == {<<>>, <<"x">>}

\* the Image components of a follow-up message: whether each one's download
\* succeeds
ImageLists == {<<>>, <<"ok">>, <<"fail">>, <<"ok", "fail">>}

UrlGood == <<"h", "t", "t", "p", ":", "a">>
UrlBad == <<"f", "t", "p", ":", "a">>
Urls == {UrlGood, UrlBad}

\* what fetch_invitation_code can return: the code or a failure text
FetchResults == {<<"code">>, <<"fetch_failed">>}

----------------------------------------------------------------------------
(* Pieces of the handlers.                                                 *)

\* lines 151-161 (and 220-230): ok, from the sender's role in the group
role_ok(role) ==
    CASE role = "owner" -> TRUE
      [] role = "admin" -> TRUE
      [] role = "member" -> FALSE
      [] OTHER -> FALSE

\* the permission test of set_invitation_url used for keywords
keyword_permitted_either(sender_id, ok) ==
    ~(sender_id \notin admins /\ ~ok)

\* line 163 (and 231): the sender may change keywords
keyword_permitted(sender_id, ok) ==
    ~(sender_id \notin admins \/ ~ok)

\* line 258: the sender may set the invitation url
url_permitted(sender_id, role) ==
    ~(sender_id \notin admins /\ role \notin {"owner", "admin"})

\* segmentations tried for the plugin's strings
PluginCuts(s) == IF s = <<>> THEN {<<>>} ELSE {CutChars(s), <<s>>}

\* lines 184-187: the path the image is saved under
temp_path(group_id, k) == <<"reply_image_", group_id, "_", k, ".jpg">>

\* lines 17-34: download_image, given whether the download succeeds
download_image(ok, save_path) == IF ok THEN save_path ELSE None

\* lines 178-188: image_path after the loop over the message components
RECURSIVE image_path_of(_, _, _)
image_path_of(comps, path, image_path) ==
    IF comps = <<>> THEN image_path
    ELSE image_path_of(Tail(comps), path, download_image(comps[1] = "ok", path))

\* the text part appended whether or not there is text
values_list_always_text(reply_text, image_path) ==
    <<[type |-> "TEXT", content |-> reply_text]>>
    \o (IF image_path # None
        THEN <<[type |-> "IMAGE_URL", content |-> image_path]>> ELSE <<>>)

\* lines 189-194
values_list(reply_text, image_path) ==
    (IF reply_text # <<>>
     THEN <<[type |-> "TEXT", content |-> reply_text]>> ELSE <<>>)
    \o (IF image_path # None
        THEN <<[type |-> "IMAGE_URL", content |-> image_path]>> ELSE <<>>)

NoCall == [op |-> "none", group |-> "", keyword |-> "", values |-> <<>>]

\* the new replies appended to the stored ones
store_reply_append(store, g, k, values) ==
    IF values # <<>>
    THEN [store |-> add_qa(store, g, k, get_qa(store, g, k) \o values),
          call |-> [op |-> "add", group |-> g, keyword |-> k,
                    values |-> get_qa(store, g, k) \o values]]
    ELSE [store |-> store, call |-> NoCall]

\* lines 195-196: the store afterwards and the store call made
store_reply(store, g, k, values) ==
    IF values # <<>>
    THEN [store |-> add_qa(store, g, k, values),
          call |-> [op |-> "add", group |-> g, keyword |-> k, values |-> values]]
    ELSE [store |-> store, call |-> NoCall]

\* lines 238-239: the store afterwards and the store call made
remove_keyword(store, g, k) ==
    [store |-> delete_qa(store, g, k),
     call |-> [op |-> "delete", group |-> g, keyword |-> k, values |-> <<>>]]

\* lines 306-311: the results yielded for one matched keyword
RECURSIVE reply_results(_)
reply_results(reply) ==
    IF reply = <<>> THEN <<>>
    ELSE (IF reply[1].type = "TEXT"
          THEN <<[src |-> "keyword", kind |-> "plain", content |-> reply[1].content]>>
          ELSE <<>>)
         \o (IF reply[1].type = "IMAGE_URL"
             THEN <<[src |-> "keyword", kind |-> "image", content |-> reply[1].content]>>
             ELSE <<>>)
         \o reply_results(Tail(reply))

\* the results check_is_match(k, m) can have, over the segmentations of k,
\* the message being segmented as mw
MatchResults(k, m, mw) == {check_is_match(k, m, kc, mw) : kc \in PluginCuts(k)}

\* lines 303-311: the loop over result; res[i] is what check_is_match returns
\* (or raises) for the i-th keyword. Yields the results so far and whether an
\* exception ended the loop.
RECURSIVE scan(_, _, _, _)
scan(entries, res, i, acc) ==
    IF i > Len(entries) THEN [out |-> acc, n |-> i - 1, raised |-> FALSE]
    ELSE IF res[i] = "True"
         THEN scan(entries, res, i + 1, acc \o reply_results(entries[i].values))
    ELSE IF res[i] = "False" THEN scan(entries, res, i + 1, acc)
    ELSE [out |-> acc, n |-> i, raised |-> TRUE]

plain(src, text) == [src |-> src, kind |-> "plain", content |-> text]

NoSession == [active |-> FALSE, sender |-> "", keyword |-> "", ok |-> FALSE]

\* the record kept of the event handled last: the handler, the event's
\* fields it read, the role fetched for its sender, the session it found, the result of the trigger test of
\* line 314, the store call it made and the replies stored before that call
Event(h, g, sender, private, role, text, comps, session, trigger, wrote, prev) ==
    [h |-> h, group |-> g, sender |-> sender, private |-> private, role |-> role,
     text |-> text, comps |-> comps, session |-> session, trigger |-> trigger,
     wrote |-> wrote, prev |-> prev]

----------------------------------------------------------------------------
(* The plugin as a state machine: one action per handler.                  *)

\* line 132: the store is the database file data/qa.db, which outlives the
\* process. The runs checked start from an empty database, or from one in
\* which an earlier run registered the keyword KOver in group g1.
InitialStores ==
    { [g \in Groups |-> <<>>],
      [g \in Groups |->
          IF g = "g1"
          THEN <<[keyword |-> "KOver",
                  values |-> <<[type |-> "TEXT", content |-> <<"x">>]>>]>>
          ELSE <<>>] }

Init ==
    /\ qa \in InitialStores
    /\ urls = [g \in Groups |-> None]
    /\ waiting = [g \in Groups |-> NoSession]
    /\ last = Event("none", "", "", FALSE, "", <<>>, <<>>, NoSession, "skipped", NoCall, <<>>)
    /\ scanned = <<>>
    /\ out = <<>>
    /\ fetched = <<>>
    /\ expect = [g \in Groups |-> [k \in Keywords |-> get_qa(qa, g, k)]]
    /\ events = 0
    /\ keyword = <<>> /\ message = <<>>
    /\ keyword_words = <<>> /\ message_words = <<>>
    /\ exit = "none" /\ ret = "pending"

\* a handler that yields results and touches nothing else; of the event
\* only the handler, the chat type and the group of a group chat are kept
Reply(ev, results) ==
    /\ last' = Event(ev.h, IF ev.private THEN "" ELSE ev.group, "", ev.private,
                     "", <<>>, <<>>, NoSession, "skipped", NoCall, <<>>)
    /\ out' = results
    /\ events' = events + 1
    /\ scanned' = <<>>
    /\ fetched' = <<>>
    /\ UNCHANGED <<qa, urls, waiting, expect>>

\* lines 139-167 and 199: the command, up to the wait for the reply
add_keyword(g, sender_id, private, aiocqhttp, role, k) ==
    /\ events < MaxEvents
    /\ UNCHANGED matchVars
    /\ LET ev == Event("add_keyword", g, sender_id, private, role, k, <<>>,
                       waiting[g], "skipped", NoCall, <<>>)
       IN
       IF private THEN Reply(ev, <<plain("command", <<"private_not_supported">>)>>)
       ELSE IF ~aiocqhttp THEN Reply(ev, <<>>)
       ELSE IF ~keyword_permitted(sender_id, role_ok(role))
            THEN Reply(ev, <<plain("command", <<"no_permission_add">>)>>)
       ELSE /\ last' = ev
            /\ out' = <<plain("command", <<"enter_reply">>)>>
            /\ waiting' = [waiting EXCEPT ![g] =
                              [active |-> TRUE, sender |-> sender_id,
                               keyword |-> k, ok |-> role_ok(role)]]
            /\ events' = events + 1
            /\ scanned' = <<>>
            /\ fetched' = <<>>
            /\ UNCHANGED <<qa, urls, expect>>

\* lines 169-200: a message arrives in a group whose session is waiting
wait_for_keyword_reply(g, now_sender_id, reply_text, comps) ==
    /\ events < MaxEvents
    /\ waiting[g].active
    /\ UNCHANGED matchVars
    /\ LET k == waiting[g].keyword
           image_path == image_path_of(comps, temp_path(g, k), None)
           values == values_list(reply_text, image_path)
           w == store_reply(qa, g, k, values)
       IN
       IF now_sender_id # waiting[g].sender
       THEN /\ last' = Event("wait_for_keyword_reply", g, now_sender_id, FALSE, "",
                             <<>>, <<>>, waiting[g], "skipped", NoCall, <<>>)
            /\ out' = <<>>
            /\ events' = events + 1
            /\ scanned' = <<>>
            /\ fetched' = <<>>
            /\ UNCHANGED <<qa, urls, waiting, expect>>
       ELSE /\ last' = Event("wait_for_keyword_reply", g, now_sender_id, FALSE, "",
                             reply_text, comps, waiting[g], "skipped", w.call,
                             get_qa(qa, g, k))
            /\ qa' = w.store
            /\ waiting' = [waiting EXCEPT ![g] = NoSession]
            /\ out' = <<plain("command", <<"keyword_added">>)>>
            /\ expect' = IF values # <<>> THEN [expect EXCEPT ![g][k] = values]
                         ELSE expect
            /\ events' = events + 1
            /\ scanned' = <<>>
            /\ fetched' = <<>>
            /\ UNCHANGED urls

\* line 169 (timeout=60) and lines 201-203: the wait times out
session_timeout(g) ==
    /\ events < MaxEvents
    /\ waiting[g].active
    /\ UNCHANGED matchVars
    /\ last' = Event("session_timeout", g, "", FALSE, "", <<>>, <<>>, waiting[g],
                     "skipped", NoCall, <<>>)
    /\ waiting' = [waiting EXCEPT ![g] = NoSession]
    /\ out' = <<plain("command", <<"wait_failed">>)>>
    /\ events' = events + 1
    /\ scanned' = <<>>
    /\ fetched' = <<>>
    /\ UNCHANGED <<qa, urls, expect>>

\* lines 208-243
delete_keyword(g, sender_id, private, aiocqhttp, role, k) ==
    /\ events < MaxEvents
    /\ UNCHANGED matchVars
    /\ LET w == remove_keyword(qa, g, k)
           ev == Event("delete_keyword", g, sender_id, private, role, k, <<>>,
                       waiting[g], "skipped", NoCall, <<>>)
       IN
       IF private THEN Reply(ev, <<plain("command", <<"private_not_supported">>)>>)
       ELSE IF ~aiocqhttp THEN Reply(ev, <<>>)
       ELSE IF ~keyword_permitted(sender_id, role_ok(role))
            THEN Reply(ev, <<plain("command", <<"no_permission_add">>)>>)
       ELSE IF sender_id \notin admins
            THEN Reply(ev, <<plain("command", <<"no_permission_delete">>)>>)
       ELSE /\ last' = [ev EXCEPT !.wrote = w.call, !.prev = get_qa(qa, g, k)]
            /\ qa' = w.store
            /\ out' = <<plain("command", delete_qa_result(qa, g, k))>>
            /\ expect' = [expect EXCEPT ![g][k] = <<>>]
            /\ events' = events + 1
            /\ scanned' = <<>>
            /\ fetched' = <<>>
            /\ UNCHANGED <<urls, waiting>>

\* lines 245-268
set_invitation_url(g, sender_id, private, aiocqhttp, role, url) ==
    /\ events < MaxEvents
    /\ UNCHANGED matchVars
    /\ LET ev == Event("set_invitation_url", g, sender_id, private, role, url, <<>>,
                       waiting[g], "skipped", NoCall, <<>>)
       IN
       IF private THEN Reply(ev, <<plain("command", <<"private_not_supported">>)>>)
       ELSE IF ~aiocqhttp THEN Reply(ev, <<>>)
       ELSE IF ~url_permitted(sender_id, role)
            THEN Reply(ev, <<plain("command", <<"no_permission_url">>)>>)
       ELSE IF ~startswith(url, <<"h", "t", "t", "p">>)
            THEN Reply(ev, <<plain("command", <<"invalid_url">>)>>)
       ELSE /\ last' = ev
            /\ urls' = add_group_invitation_url(urls, g, url)
            /\ out' = <<plain("command", <<"url_set">>)>>
            /\ events' = events + 1
            /\ scanned' = <<>>
            /\ fetched' = <<>>
            /\ UNCHANGED <<qa, waiting, expect>>

\* lines 270-288
query_keyword(g, private, k) ==
    /\ events < MaxEvents
    /\ UNCHANGED matchVars
    /\ LET ev == Event("query_keyword", g, "", private, "", k, <<>>, waiting[g],
                       "skipped", NoCall, <<>>)
           result == get_qa(qa, g, k)
       IN
       IF private THEN Reply(ev, <<plain("command", <<"private_not_supported">>)>>)
       ELSE Reply(ev, <<[src |-> "command", kind |-> "plain",
                         content |-> IF result # <<>>
                                     THEN [i \in 1..Len(result) |-> result[i].content]
                                     ELSE <<"no_reply_found">>]>>)

\* lines 290-320
on_all_message(g, private, text) ==
    /\ events < MaxEvents
    /\ UNCHANGED matchVars
    /\ LET ev == Event("on_all_message", g, "", private, "", text, <<>>, waiting[g],
                       "skipped", NoCall, <<>>)
       IN
       IF private THEN Reply(ev, <<>>)
       ELSE IF startswith(text, <<"/">>)
       THEN /\ last' = ev
            /\ out' = <<>>
            /\ events' = events + 1
            /\ scanned' = <<>>
            /\ fetched' = <<>>
            /\ UNCHANGED <<qa, urls, waiting, expect>>
       ELSE
         LET result == get_qa_by_group(qa, g)
             url == get_group_invitation_url(urls, g)
         IN
         \E mw \in PluginCuts(text) :
         \E res \in [1..Len(result) -> {"True", "False", "OverflowError"}] :
            /\ \A i \in 1..Len(result) :
                  res[i] \in MatchResults(text_of(result[i].keyword), text, mw)
            /\ LET sc == scan(result, res, 1, <<>>) IN
               /\ scanned' = SubSeq(res, 1, sc.n)
               /\ IF sc.raised
                  THEN /\ last' = ev
                       /\ out' = sc.out
                       /\ fetched' = <<>>
                  ELSE \E trig \in MatchResults(invitation_trigger, text, mw) :
                       /\ last' = [ev EXCEPT !.trigger = trig]
                       /\ IF trig # "True"
                          THEN out' = sc.out /\ fetched' = <<>>
                          ELSE IF url = None
                          THEN /\ out' = sc.out \o <<plain("invitation", <<"url_not_set">>)>>
                               /\ fetched' = <<>>
                          ELSE /\ fetched' = <<url>>
                               /\ \E code \in FetchResults :
                                     out' = sc.out \o <<plain("invitation", code)>>
            /\ events' = events + 1
            /\ UNCHANGED <<qa, urls, waiting, expect>>

\* A private event is returned from before its sender, role, group or
\* argument is read, and an event of another platform fails the isinstance
\* assertion before its role is read: one representative of each is delivered.
Next ==
    \/ \E g \in Groups, u \in Users, role \in Roles, k \in Keywords :
            \/ add_keyword(g, u, FALSE, TRUE, role, k)
            \/ delete_keyword(g, u, FALSE, TRUE, role, k)
    \/ \E g \in Groups, u \in Users, role \in Roles, url \in Urls :
            set_invitation_url(g, u, FALSE, TRUE, role, url)
    \/ \E g \in Groups, c \in {<<TRUE, TRUE>>, <<FALSE, FALSE>>} :
            \/ add_keyword(g, "u1", c[1], c[2], "owner", "KA")
            \/ delete_keyword(g, "u1", c[1], c[2], "owner", "KA")
            \/ set_invitation_url(g, "u1", c[1], c[2], "owner", UrlGood)
    \/ \E g \in Groups, u \in Users, text \in ReplyTexts, comps \in ImageLists :
            wait_for_keyword_reply(g, u, text, comps)
    \/ \E g \in Groups : session_timeout(g)
    \/ \E g \in Groups, k \in Keywords : query_keyword(g, FALSE, k)
    \/ \E g \in Groups : query_keyword(g, TRUE, "KA")
    \/ \E g \in Groups, text \in Messages : on_all_message(g, FALSE, text)
    \/ \E g \in Groups : on_all_message(g, TRUE, invitation_trigger)

Spec == Init /\ [][Next]_vars

----------------------------------------------------------------------------
(* check_is_match alone, applied to the checked inputs.                    *)

PluginIdle ==
    /\ qa = [g \in Groups |-> <<>>]
    /\ urls = [g \in Groups |-> None]
    /\ waiting = [g \in Groups |-> NoSession]
    /\ last = Event("none", "", "", FALSE, "", <<>>, <<>>, NoSession, "skipped", NoCall, <<>>)
    /\ scanned = <<>>
    /\ out = <<>>
    /\ fetched = <<>>
    /\ expect = [g \in Groups |-> [k \in Keywords |-> <<>>]]
    /\ events = 0

InitMatch ==
    /\ \/ InFamily(AlphaCore, 0, MaxKwLen)
       \/ InFamily(AlphaCore2, 2, MaxKwLen)
       \/ InFamily(AlphaRep, MaxKwLen + 1, MaxKwLen + 1)
       \/ InRegex
       \/ InCoverage
    /\ exit = "none"
    /\ ret = "pending"
    /\ PluginIdle

\* the call check_is_match(keyword, message)
Call ==
    /\ ret = "pending"
    /\ exit' = match_exit(keyword, message, keyword_words, message_words)
    /\ ret' = check_is_match(keyword, message, keyword_words, message_words)
    /\ UNCHANGED <<keyword, message, keyword_words, message_words>>
    /\ UNCHANGED pluginVars

NextMatch == Call

SpecMatch == InitMatch /\ [][NextMatch]_vars

----------------------------------------------------------------------------
(* Properties of check_is_match, checked under SpecMatch.                  *)

Returned == ret # "pending"

\* k occurs in m at some offset, character by character
Occurs(k, m) ==
    \E i \in 0..Len(m) :
        /\ i + Len(k) <= Len(m)
        /\ \A j \in 1..Len(k) : m[i + j] = k[j]

\* keyword tokens (counted with multiplicity) found among the message tokens
PresentOccurrences ==
    Cardinality({i \in 1..Len(keyword_words) :
                    \E j \in 1..Len(message_words) : message_words[j] = keyword_words[i]})

\* distinct keyword tokens found among the message tokens
PresentDistinct ==
    Cardinality({keyword_words[i] : i \in 1..Len(keyword_words)}
                \cap {message_words[j] : j \in 1..Len(message_words)})

\* the token-coverage strategy was reached
TokensReached == exit \in {"L77", "L83", "L96", "L98"}

\* C1: a non-empty keyword that occurs literally in the message matches,
\* whatever its prefix and whatever the tokenizer returned.
Thm_C1 ==
    (Returned /\ keyword # <<>> /\ Occurs(keyword, message)) => ret = "True"

\* C1 witness: a "re:" keyword whose pattern cannot even be compiled is
\* contained literally in the message and the call returned True.
Wit_C1 ==
    /\ ret = "True"
    /\ exit = "L58"
    /\ startswith(keyword, re_prefix)
    /\ regex_strategy(keyword, message) = "OverflowError"

\* C2: for a keyword starting with "re:" check_is_match never raises; it
\* returns a boolean.
CE_C2 ==
    (Returned /\ startswith(keyword, re_prefix)) => ret \in {"True", "False"}

C4Case ==
    /\ Returned
    /\ keyword # <<>>
    /\ message # <<>>
    /\ Len(keyword_words) <= 2
    /\ ~Occurs(keyword, message)
    /\ \E i \in 1..Len(keyword_words) :
          \A j \in 1..Len(message_words) : message_words[j] # keyword_words[i]

\* C4 as stated: a keyword of at most 2 tokens, not a substring, not matched
\* by the regex strategy, with a token missing from the message tokens,
\* yields False.
CE_C4 ==
    (C4Case /\ regex_strategy(keyword, message) = "nomatch") => ret = "False"

\* C4 amended: in that case the call never returns True through the token
\* strategy: when the regex strategy ends without a match the result is
\* exactly that of the core-word heuristic, and otherwise nothing is returned.
Thm_C4 ==
    (C4Case /\ regex_strategy(keyword, message) # "match") =>
        IF regex_strategy(keyword, message) = "nomatch"
        THEN ret = (IF core_word_match(keyword, message) THEN "True" ELSE "False")
        ELSE ret \notin {"True", "False"}

\* C4 witness: a two-token keyword with one token missing matched through
\* the core-word heuristic.
Wit_C4 ==
    /\ C4Case
    /\ Len(keyword_words) = 2
    /\ \E i \in 1..2 : word_in(keyword_words[i], message_words)
    /\ exit = "L96"

\* C5 as stated: the heuristic succeeds exactly when a core word shared by
\* keyword and message leaves, once its FIRST occurrence is removed from
\* each, two remainders with a common character.
CE_C5 ==
    exit \in {"L96", "L98"} =>
        (exit = "L96" <=>
            \E i \in 1..Len(important_words) :
                LET w == important_words[i] IN
                /\ Occurs(w, keyword) /\ Occurs(w, message)
                /\ CharSet(RemoveFirst(keyword, w))
                     \cap CharSet(RemoveFirst(message, w)) # {})

\* C5 amended: the heuristic succeeds exactly when a core word shared by
\* keyword and message leaves, once ALL its occurrences are removed from
\* each, two remainders with a common character.
Thm_C5 ==
    exit \in {"L96", "L98"} =>
        (exit = "L96" <=>
            \E i \in 1..Len(important_words) :
                LET w == important_words[i] IN
                /\ Occurs(w, keyword) /\ Occurs(w, message)
                /\ CharSet(str_replace(keyword, w))
                     \cap CharSet(str_replace(message, w)) # {})

\* C5 witness: a shared core word occurs twice in the keyword, the
\* remainders after removing every occurrence are disjoint, and the call
\* returned False.
Wit_C5 ==
    /\ exit = "L98"
    /\ \E i \in 1..Len(important_words) :
          LET w == important_words[i] IN
          /\ Occurs(w, keyword) /\ Occurs(w, message)
          /\ CharSet(RemoveFirst(keyword, w))
               \cap CharSet(RemoveFirst(message, w)) # {}

----------------------------------------------------------------------------
(* Properties of the handlers, checked under Spec.                         *)

\* the last event was a group message that on_all_message scanned
ScanCase ==
    /\ last.h = "on_all_message"
    /\ ~last.private
    /\ ~(Len(last.text) >= 1 /\ last.text[1] = "/")

\* the results yielded for keywords, in order
KeywordPart(results) == SelectSeq(results, LAMBDA o : o.src = "keyword")

\* one result per stored part, for each keyword whose test returned True, in
\* the enumeration order of the entries
RECURSIVE ExpectedReplies(_, _, _)
ExpectedReplies(entries, res, i) ==
    IF i > Len(entries) THEN <<>>
    ELSE (IF res[i] = "True"
          THEN [j \in 1..Len(entries[i].values) |->
                   [src |-> "keyword",
                    kind |-> IF entries[i].values[j].type = "TEXT" THEN "plain" ELSE "image",
                    content |-> entries[i].values[j].content]]
          ELSE <<>>)
         \o ExpectedReplies(entries, res, i + 1)

\* C6: for a scanned group message, the keyword replies yielded are exactly,
\* for every keyword of the group that matches and in the mapping's
\* enumeration order, one result per stored reply part in stored order; the
\* other keywords yield nothing.
CE_C6 ==
    ScanCase =>
        LET entries == qa[last.group] IN
        \E mw \in PluginCuts(last.text) :
        \E res \in [1..Len(entries) -> {"True", "False", "OverflowError"}] :
            /\ \A i \in 1..Len(entries) :
                  res[i] \in MatchResults(text_of(entries[i].keyword), last.text, mw)
            /\ KeywordPart(out) = ExpectedReplies(entries, res, 1)

\* C7: get(g, k) is the reply list of the latest add(g, k, .) not followed by
\* delete(g, k), and empty otherwise.
Thm_C7 ==
    \A g \in Groups, k \in Keywords : get_qa(qa, g, k) = expect[g][k]

\* C7 witness: a registration has just replaced different replies stored
\* for the same group and keyword.
Wit_C7 ==
    /\ last.wrote.op = "add"
    /\ last.prev # <<>>
    /\ last.prev # last.wrote.values
    /\ get_qa(qa, last.group, last.wrote.keyword) = last.wrote.values

\* C8: every part handed to the store has a kind and non-empty content (the
\* text of the follow-up message, or the path of an image whose download
\* succeeded), and add is never called with an empty list.
Thm_C8 ==
    /\ last.wrote.op = "add" =>
          /\ last.wrote.values # <<>>
          /\ \A i \in 1..Len(last.wrote.values) :
                LET item == last.wrote.values[i] IN
                /\ item.type \in {"TEXT", "IMAGE_URL"}
                /\ item.content # <<>>
                /\ item.type = "TEXT" => item.content = last.text
                /\ item.type = "IMAGE_URL" =>
                      /\ last.comps # <<>>
                      /\ last.comps[Len(last.comps)] = "ok"
    /\ \A g \in Groups : \A i \in 1..Len(qa[g]) :
          /\ qa[g][i].values # <<>>
          /\ \A j \in 1..Len(qa[g][i].values) : qa[g][i].values[j].content # <<>>

\* C8 witness: the follow-up message had text and an image whose download
\* failed, and only the text part was stored.
Wit_C8 ==
    /\ last.wrote.op = "add"
    /\ last.comps # <<>>
    /\ last.comps[Len(last.comps)] = "fail"
    /\ Len(last.wrote.values) = 1
    /\ last.wrote.values[1].type = "TEXT"

\* the trigger matches the message whatever the tokenizer returns
TriggerMatches ==
    \A mw \in PluginCuts(last.text) :
        MatchResults(invitation_trigger, last.text, mw) = {"True"}

\* C9: the invitation url is fetched only for a scanned group message that
\* the trigger matches in a group with a configured url; when the trigger
\* matches and no url is configured exactly one "not configured" reply is
\* yielded and nothing is fetched; an invitation reply follows all keyword
\* replies.
CE_C9 ==
    /\ fetched # <<>> =>
          /\ ScanCase
          /\ last.trigger = "True"
          /\ urls[last.group] # None
          /\ fetched = <<urls[last.group]>>
    /\ (ScanCase /\ TriggerMatches /\ urls[last.group] = None) =>
          /\ fetched = <<>>
          /\ Cardinality({i \in 1..Len(out) : out[i].src = "invitation"}) = 1
          /\ \E i \in 1..Len(out) : out[i] = plain("invitation", <<"url_not_set">>)
    /\ \A i, j \in 1..Len(out) :
          (i < j) => ~(out[i].src = "invitation" /\ out[j].src = "keyword")

\* C10: the store's keyword add and delete are called only for group events
\* whose sender is in admins and has role owner or admin; the add only by a
\* follow-up message of the sender who opened the session, and a follow-up
\* of another sender writes nothing and leaves the session waiting.
Thm_C10 ==
    /\ last.wrote.op = "delete" =>
          /\ last.h = "delete_keyword"
          /\ ~last.private
          /\ last.sender \in admins
          /\ last.role \in {"owner", "admin"}
    /\ (last.h = "add_keyword" /\ last.sender # "") =>
          /\ ~last.private
          /\ last.sender \in admins
          /\ last.role \in {"owner", "admin"}
    /\ \A g \in Groups :
          waiting[g].active => (waiting[g].sender \in admins /\ waiting[g].ok)
    /\ last.wrote.op = "add" =>
          /\ last.h = "wait_for_keyword_reply"
          /\ last.session.active
          /\ last.sender = last.session.sender
          /\ last.session.sender \in admins
          /\ last.session.ok
          /\ last.wrote.group = last.group
          /\ last.wrote.keyword = last.session.keyword
    /\ (last.h = "wait_for_keyword_reply" /\ last.sender # last.session.sender) =>
          /\ last.wrote.op = "none"
          /\ waiting[last.group] = last.session

\* C10 witness: with a session waiting, a follow-up of another sender wrote
\* nothing and the session is still waiting.
Wit_C10 ==
    /\ last.h = "wait_for_keyword_reply"
    /\ last.session.active
    /\ last.sender # last.session.sender
    /\ last.wrote.op = "none"
    /\ waiting[last.group].active

====
